---------------------------- MODULE Spec2Model ----------------------------
(***************************************************************************)
(* A model of main.py of bortrace_bot: the page fetcher, the schedule      *)
(* window filter, the race data extractor, the decision engine and the     *)
(* patrol loop with its duplicate-suppression log.                         *)
(*                                                                         *)
(* Units.  Probabilities are integers in percent (0.55 is 55).  Times of   *)
(* day are seconds since midnight of date_str; a deadline text "H:MM" is   *)
(* a record [h, m] of the two numbers the regular expression captured.     *)
(* Exhibition times and start-timing offsets are in hundredths of a        *)
(* second (6.80 is 680, 0.15 is 15).                                       *)
(***************************************************************************)
EXTENDS Integers, Sequences, FiniteSets, TLC

VARIABLES
    call,        \* the arguments of the function under study, or NoCall
    ret,         \* what it returned, or NoRet
    pc,          \* run_live_patrol: "idle" (not running), "venue", "race",
                 \* "crashed" (left by an exception)
    run,         \* how many patrol runs have started
    date,        \* date_str of the current run
    courses,     \* the active venues of the run, sorted
    ci,          \* index into courses of the venue being processed
    targets,     \* the target races of that venue
    ti,          \* index into targets of the race to process next
    log,         \* notified_races.log: a sequence of race ids
    webhook,     \* whether DISCORD_WEBHOOK_URL is set
    config,      \* config["features"] of model_config_v4.pkl
    todo,        \* history: <<run, venue, 0>> for an active venue not yet
                 \*   scanned, <<run, venue, rno>> for a target race neither
                 \*   skipped nor evaluated yet
    posts,       \* history: the ids requests.post was called for
    lastStep,    \* history: what the last pass of the race loop did: [kind,
                 \*   run, id, status, worthy, again, posts]
    lastReq,     \* history: the unit (index, venue, race) whose request was
                 \*   issued last
    paused,      \* history: time.sleep was called after that request
    gap          \* history, per run: the first two units with requests and
                 \*   no sleep between them

patrolVars == <<pc, run, date, courses, ci, targets, ti, log, webhook, config,
                todo, posts, lastStep, lastReq, paused, gap>>
vars == <<call, ret, pc, run, date, courses, ci, targets, ti, log, webhook, config,
          todo, posts, lastStep, lastReq, paused, gap>>

NoCall == [fn |-> "none"]
NoRet == [fn |-> "none"]
\* Python's None (a record, so that it compares with the records it stands in for)
None == [none |-> TRUE]

\* The history variables before anything happened.
NoUnit == [kind |-> "none", venue |-> 0, rno |-> 0]
NoGap == [from |-> "none", to |-> "none"]
NoStep == [kind |-> "none", run |-> 0, id |-> <<0, 0, 0>>, status |-> 0,
           worthy |-> FALSE, again |-> FALSE, posts |-> 0]

(***************************************************************************)
(* Bounds of the model.                                                    *)
(***************************************************************************)
MaxRetries == 3      \* _get_soup is called with retries in 0..MaxRetries
MaxDeadlines == 13   \* deadline texts on a race-list page
MaxRuns == 2         \* patrol runs
NumVenues == 2       \* venues of COURSE_MAP that the index page may link

(***************************************************************************)
(* 1. The page fetcher: BoatRaceScraperV5._get_soup                        *)
(***************************************************************************)
\* What one session.get + raise_for_status can do.
FetchOutcomes == {"ok", "transport", "timeout", "status"}

\* requests' ConnectionError, Timeout and HTTPError are all Exceptions: the
\* handler "except Exception" catches each of them.
ExceptionKinds == {"transport", "timeout", "status"}

BackoffWaitFixed(i) == 3

\* wait = (i + 1) * 3, i the 0-based loop index
BackoffWait(i) == (i + 1) * 3

RECURSIVE GetSoupLoop(_, _, _, _, _)
GetSoupLoop(i, retries, outs, attempts, waits) ==
    IF i >= retries
    THEN [doc |-> FALSE, raised |-> FALSE, attempts |-> attempts, waits |-> waits]
    ELSE IF outs[i + 1] = "ok"
    THEN [doc |-> TRUE, raised |-> FALSE, attempts |-> attempts + 1, waits |-> waits]
    ELSE IF outs[i + 1] \in ExceptionKinds
    THEN GetSoupLoop(i + 1, retries, outs, attempts + 1,
                     Append(waits, BackoffWait(i)))
    ELSE [doc |-> FALSE, raised |-> TRUE, attempts |-> attempts + 1, waits |-> waits]

\* outs[k] is the outcome the k-th attempt would have.
GetSoup(outs, retries) == GetSoupLoop(0, retries, outs, 0, <<>>)

SoupCalls ==
    { [fn |-> "_get_soup", retries |-> r, outs |-> o] :
        r \in 0..MaxRetries, o \in UNION { [1..n -> FetchOutcomes] : n \in 0..MaxRetries } }

InitPatrolIdle ==
    /\ pc = "off"
    /\ run = 0
    /\ date = 0
    /\ courses = <<>>
    /\ ci = 0
    /\ targets = <<>>
    /\ ti = 0
    /\ log = <<>>
    /\ webhook = FALSE
    /\ config = <<>>
    /\ todo = {}
    /\ posts = <<>>
    /\ lastStep = NoStep
    /\ lastReq = NoUnit
    /\ paused = FALSE
    /\ gap = NoGap

InitSoup ==
    /\ call \in { c \in SoupCalls : Len(c.outs) = c.retries }
    /\ ret = NoRet
    /\ InitPatrolIdle

CallGetSoup ==
    /\ call.fn = "_get_soup"
    /\ ret = NoRet
    /\ ret' = [fn |-> "_get_soup"] @@ GetSoup(call.outs, call.retries)
    /\ UNCHANGED <<call, patrolVars>>

SpecSoup == InitSoup /\ [][CallGetSoup]_vars


\* C7: _get_soup makes at most `retries` attempts, stops at the first attempt
\* that succeeds and returns the document, treats a transport error, a timeout
\* and a non-2xx status as a failed attempt, sleeps 3*i seconds after the i-th
\* failed attempt, returns None once `retries` attempts have failed, and never
\* raises an attempt's failure to its caller.
C7_GetSoupRetryContract ==
    (call.fn = "_get_soup" /\ ret # NoRet) =>
        LET n == call.retries
            firstOk == { k \in 1..n : /\ call.outs[k] = "ok"
                                      /\ \A j \in 1..(k - 1) : call.outs[j] # "ok" }
            failed == IF ret.doc THEN ret.attempts - 1 ELSE ret.attempts
        IN  /\ ret.attempts <= n
            /\ ~ret.raised
            /\ ret.doc <=> (firstOk # {})
            /\ ret.doc => ret.attempts \in firstOk
            /\ ~ret.doc => ret.attempts = n
            /\ Len(ret.waits) = failed
            /\ \A j \in 1..failed : ret.waits[j] = 3 * j

\* Two failed attempts (a timeout, a 5xx status), then a success.
C7_Witness ==
    /\ call.fn = "_get_soup"
    /\ ret # NoRet
    /\ call.retries = 3
    /\ call.outs = <<"timeout", "status", "ok">>
    /\ ret.doc
    /\ ret.attempts = 3
    /\ ret.waits = <<3, 6>>

(***************************************************************************)
(* 2. The schedule window filter:                                          *)
(*    BoatRaceScraperV5.get_target_races_for_course                        *)
(***************************************************************************)
MaxRace == 12         \* if current_r > 12: break
WindowLower == 5      \* if 5 <= minutes <= 35
WindowUpper == 35

\* datetime.strptime(..., "%Y%m%d %H:%M") accepts hours 0..23 and minutes
\* 0..59; the regular expression \d{1,2}:\d{2} also matches texts such as
\* "25:00" and "12:75", for which strptime raises ValueError.
StrptimeOk(t) == t.h <= 23 /\ t.m <= 59

\* race_dt as seconds since midnight of date_str
RaceSeconds(t) == (t.h * 60 + t.m) * 60

InWindowExclusive(t, now) ==
    /\ WindowLower * 60 < RaceSeconds(t) - now
    /\ RaceSeconds(t) - now <= WindowUpper * 60

\* minutes = (race_dt - now_dt).total_seconds() / 60;  5 <= minutes <= 35
InWindow(t, now) ==
    /\ WindowLower * 60 <= RaceSeconds(t) - now
    /\ RaceSeconds(t) - now <= WindowUpper * 60

RECURSIVE TargetsLoop(_, _, _, _)
TargetsLoop(i, deadlines, now, acc) ==
    IF i > Len(deadlines) THEN acc
    ELSE IF i > MaxRace THEN acc
    ELSE IF StrptimeOk(deadlines[i]) /\ InWindow(deadlines[i], now)
    THEN TargetsLoop(i + 1, deadlines, now, Append(acc, i))
    ELSE TargetsLoop(i + 1, deadlines, now, acc)

\* soupOk: _get_soup returned the race-list page; deadlines: the texts
\* re.findall captured, in page order.
GetTargetRacesForCourse(soupOk, deadlines, now) ==
    IF ~soupOk THEN <<>>
    ELSE IF deadlines = <<>> THEN <<>>
    ELSE TargetsLoop(1, deadlines, now, <<>>)

TimeOfMinute(x) == [h |-> x \div 60, m |-> x % 60]

\* A race-list page: deadlines every `g` minutes from minute `s` of the day,
\* the text at position `b` (if any) one that strptime rejects.
PageOf(s, g, n, b) ==
    [k \in 1..n |-> IF k = b THEN [h |-> 25, m |-> 0]
                    ELSE TimeOfMinute(s + (k - 1) * g)]

\* now_dt: 12:00:00, 12:00:01 and 12:00:30
NowSet == {43200, 43201, 43230}
StartSet == {710, 724, 725, 726, 755, 756}
GapSet == {0, 1, 15}

TargetCalls ==
    { [fn |-> "get_target_races_for_course", soupOk |-> ok,
       deadlines |-> PageOf(s, g, n, b), now |-> t] :
        ok \in BOOLEAN, s \in StartSet, g \in GapSet, n \in 0..MaxDeadlines,
        b \in 0..MaxDeadlines, t \in NowSet }

InitTargets ==
    /\ call \in TargetCalls
    /\ ret = NoRet
    /\ InitPatrolIdle

CallGetTargetRaces ==
    /\ call.fn = "get_target_races_for_course"
    /\ ret = NoRet
    /\ ret' = [fn |-> "get_target_races_for_course",
               targets |-> GetTargetRacesForCourse(call.soupOk, call.deadlines, call.now)]
    /\ UNCHANGED <<call, patrolVars>>

SpecTargets == InitTargets /\ [][CallGetTargetRaces]_vars

\* The minutes remaining to a deadline text, times 60 (so that it is a whole
\* number of seconds), read off the text without the code's helpers.
SecondsRemaining(t, now) == t.h * 3600 + t.m * 60 - now

\* C2: for a retrieved race-list page get_target_races_for_course returns, in
\* ascending order and without repetition, exactly the positions k in 1..12 of
\* the deadline texts that parse as a time of day and whose minutes remaining
\* lie in the inclusive window 5..35; positions past 12 are never returned.
C2_TargetsAreWindowPositions ==
    (call.fn = "get_target_races_for_course" /\ ret # NoRet /\ call.soupOk) =>
        LET d == call.deadlines
            want == { k \in 1..Len(d) :
                        /\ k <= 12
                        /\ d[k].h \in 0..23 /\ d[k].m \in 0..59
                        /\ 5 * 60 <= SecondsRemaining(d[k], call.now)
                        /\ SecondsRemaining(d[k], call.now) <= 35 * 60 }
        IN  /\ \A j \in 1..Len(ret.targets) : ret.targets[j] \in want
            /\ \A k \in want : \E j \in 1..Len(ret.targets) : ret.targets[j] = k
            /\ \A j \in 1..(Len(ret.targets) - 1) : ret.targets[j] < ret.targets[j + 1]

\* A page of 13 deadlines one minute apart from 12:04, read at 12:00:00: race 1
\* (4 minutes) is out, race 2 (exactly 5 minutes) is in, the text at position 3
\* does not parse, and position 13 (16 minutes) is past the 12th race.
C2_Witness ==
    /\ call.fn = "get_target_races_for_course"
    /\ ret # NoRet
    /\ call.soupOk
    /\ call.now = 43200
    /\ call.deadlines = PageOf(724, 1, 13, 3)
    /\ ret.targets = <<2, 4, 5, 6, 7, 8, 9, 10, 11, 12>>

(***************************************************************************)
(* 3. The race data extractor: BoatRaceScraperV5.fetch_race_data           *)
(***************************************************************************)
Boats == 1..6

\* The names assigned in the body of fetch_race_data, with its parameters.
FetchRaceDataLocals ==
    {"self", "course", "rno", "date_str", "list_url", "race_list_url",
     "soup_list", "deadline_str", "m_time", "info_url", "soup_info", "bodies",
     "boat_info", "i", "rank", "win_rate", "b", "is_boat_row", "r_m", "rates",
     "weather", "wind_speed", "wave", "txt", "w_m", "h_m", "table", "rows",
     "data", "tds", "ex_val", "st_text"}

\* The names bound at module level: the imports, the settings, the functions.
ModuleGlobals ==
    {"os", "pd", "np", "pickle", "re", "requests", "time", "BeautifulSoup",
     "Path", "datetime", "timedelta", "timezone", "DISCORD_WEBHOOK_URL", "JST",
     "BASE_DIR", "MODEL_PATH", "CONFIG_PATH", "LOG_FILE", "is_already_notified",
     "save_notified_race", "BoatRaceScraperV5", "predict_single",
     "run_live_patrol"}

\* Whether evaluating the name `n` inside fetch_race_data finds a binding
\* (otherwise Python raises NameError).
NameDefined(n) == n \in FetchRaceDataLocals \cup ModuleGlobals

\* A cell's text: [kind, v].  kind "num": the decimal number v (hundredths);
\* "blank": empty, or not starting with a digit; "junk": starting with a digit
\* but no decimal number; "nomatch": holding no ".digits"; "absent": not on the
\* page.
Num(v) == [kind |-> "num", v |-> v]
Txt(k) == [kind |-> k, v |-> 0]

\* float(ex_val) if ex_val and ex_val[0].isdigit() else 6.80; float raises
\* ValueError on a text that starts with a digit and is no number.
ExTimeRaises(x) == x.kind = "junk"
ExTimeOf(x) == IF x.kind = "num" THEN x.v ELSE 680

\* float("0" + m.group(1)) if re.search(r"(\.\d+)", st_text) else 0.15
StOf(x) == IF x.kind = "num" THEN x.v ELSE 15

\* rank, win_rate = "B2", 0.0 unless the boat's row gives them
RankOf(x) == IF x = "absent" THEN "B2" ELSE x
WinRateOf(x) == IF x.kind = "num" THEN x.v ELSE 0

\* The dictionary `data` built from the two pages.
MakeRecord(p) ==
    [wind_speed |-> IF p.weather.present THEN p.weather.wind ELSE 0,
     wave       |-> IF p.weather.present THEN p.weather.wave ELSE 0,
     deadline   |-> p.deadline,
     ex_time    |-> [i \in Boats |-> ExTimeOf(p.ex[i])],
     st         |-> [i \in Boats |-> StOf(p.st[i])],
     rank       |-> [i \in Boats |-> RankOf(p.rank[i])],
     win_rate   |-> [i \in Boats |-> WinRateOf(p.rate[i])]]

\* p describes what the site serves: whether each _get_soup call returns a
\* page, and what the pages hold.  Every exception raised in the body is
\* caught by the bare "except: return None".
FetchRaceData(p) ==
    IF ~p.listOk THEN None
    ELSE IF ~p.infoOk \/ p.marker THEN None
    ELSE IF ~NameDefined("jcd") THEN None
    ELSE IF ~p.info2Ok \/ p.marker THEN None
    ELSE IF ~p.table THEN None
    ELSE IF p.nRows < 6 \/ p.nCols < 5 THEN None
    ELSE IF \E i \in Boats : ExTimeRaises(p.ex[i]) THEN None
    ELSE MakeRecord(p)

ExTexts ==
    { [i \in Boats |-> Num(670 + i)],
      [i \in Boats |-> IF i = 2 THEN Txt("blank") ELSE Num(675)],
      [i \in Boats |-> IF i = 5 THEN Txt("junk") ELSE Num(680 - i)] }
StTexts ==
    { [i \in Boats |-> Num(10 + i)],
      [i \in Boats |-> IF i = 3 THEN Txt("nomatch") ELSE Num(8)] }
RankTexts ==
    { [i \in Boats |-> IF i = 1 THEN "A1" ELSE "B1"],
      [i \in Boats |-> IF i = 1 THEN "B1" ELSE IF i = 4 THEN "absent" ELSE "A2"] }
Weathers == {[present |-> FALSE, wind |-> 0, wave |-> 0],
             [present |-> TRUE, wind |-> 3, wave |-> 2]}

Pages ==
    { [listOk |-> a, infoOk |-> b, marker |-> c, info2Ok |-> d, table |-> e,
       nRows |-> r, nCols |-> k, weather |-> w, ex |-> x, st |-> s,
       rank |-> g, rate |-> [i \in Boats |-> IF i = 6 THEN Txt("absent") ELSE Num(500 + 10 * i)],
       deadline |-> "12:30"] :
        a \in BOOLEAN, b \in BOOLEAN, c \in BOOLEAN, d \in BOOLEAN, e \in BOOLEAN,
        r \in {5, 6}, k \in {4, 10}, w \in Weathers, x \in ExTexts, s \in StTexts,
        g \in RankTexts }

\* Both pages retrieved, no "no data" marker, the results table with six rows
\* of enough columns.
PageComplete(p) ==
    /\ p.listOk /\ p.infoOk /\ p.info2Ok /\ ~p.marker
    /\ p.table /\ p.nRows = 6 /\ p.nCols >= 5

InitFetch ==
    /\ call \in { [fn |-> "fetch_race_data", page |-> p] : p \in Pages }
    /\ ret = NoRet
    /\ InitPatrolIdle

CallFetchRaceData ==
    /\ call.fn = "fetch_race_data"
    /\ ret = NoRet
    /\ ret' = [fn |-> "fetch_race_data", data |-> FetchRaceData(call.page)]
    /\ UNCHANGED <<call, patrolVars>>

SpecFetch == InitFetch /\ [][CallFetchRaceData]_vars

\* C4: whenever both pages are retrieved, the page has no "no data" marker and
\* the results table has six rows of enough columns, fetch_race_data returns a
\* complete record, in which an unparseable exhibition time is 6.80, an
\* unparseable start-timing offset is 0.15 and an absent weather block gives
\* wind speed 0 and wave height 0.
C4_FieldFailureKeepsRecord ==
    (call.fn = "fetch_race_data" /\ ret # NoRet /\ PageComplete(call.page)) =>
        /\ ret.data # None
        /\ \A i \in Boats :
              /\ call.page.ex[i].kind # "num" => ret.data.ex_time[i] = 680
              /\ call.page.st[i].kind # "num" => ret.data.st[i] = 15
        /\ ~call.page.weather.present =>
              (ret.data.wind_speed = 0 /\ ret.data.wave = 0)

(***************************************************************************)
(* 4. Feature building and the decision engine: predict_single             *)
(***************************************************************************)
TauUpset == 55       \* if in_jump_prob >= 0.55
TauFocus == 35       \* if top1[1] >= 0.35
TauStandard == 25    \* elif top1[1] >= 0.25

\* rank_map.get(rank, 2)
RankVal(r) ==
    CASE r = "A1" -> 4 [] r = "A2" -> 3 [] r = "B1" -> 2 [] r = "B2" -> 1
      [] OTHER -> 2

\* pd.Series(ex_vals).rank(method="min")
ExRank(ex, i) == 1 + Cardinality({ j \in Boats : ex[j] < ex[i] })

\* 1 if rank_val_1 <= 2 and ex_rank_1 >= 4 else 0
IsDebuff1(data) ==
    IF RankVal(data.rank[1]) <= 2 /\ ExRank(data.ex_time, 1) >= 4 THEN 1 ELSE 0

\* The keys of input_dict: a feature name is <<stem, boat>> (boat 0 for a
\* race-level field).  ex_diff_i = ex_time_i - mean is a key whose value the
\* model does not compute.
ComputedFields ==
    {<<"wind_speed", 0>>, <<"wave", 0>>, <<"is_debuff", 1>>}
    \cup ({"rank_val", "win_rate", "ex_time", "ex_diff", "ex_rank", "st"} \X Boats)

\* pd.DataFrame([input_dict])[config["features"]] raises KeyError when a
\* declared feature is no key of input_dict.
FeaturesProducible(features) ==
    \A k \in 1..Len(features) : features[k] \in ComputedFields

\* sorted(..., key=lambda x: x[1], reverse=True) is stable: of two boats with
\* the same probability the lower-numbered one comes first.
RankedBefore(a, b) == a.p > b.p \/ (a.p = b.p /\ a.boat < b.boat)

\* {i+1: p for i, p in enumerate(probs) if i > 0}, sorted by probability
Ranking(probs) ==
    SortSeq([k \in 1..(Len(probs) - 1) |-> [boat |-> k + 1, p |-> probs[k + 1]]],
            RankedBefore)

StrategyStrict(inJump, best) ==
    IF inJump >= TauUpset
    THEN IF best > TauFocus THEN "FOCUS"
         ELSE IF best > TauStandard THEN "STANDARD"
         ELSE "WIDE"
    ELSE ""

\* strategy = "" unless in_jump_prob >= 0.55, then by top1's probability
Strategy(inJump, best) ==
    IF inJump >= TauUpset
    THEN IF best >= TauFocus THEN "FOCUS"
         ELSE IF best >= TauStandard THEN "STANDARD"
         ELSE "WIDE"
    ELSE ""

\* "{top1}-{top2}{top3}-all" unless WIDE, which recommends a box without boat 1
BetOf(strategy, top1, top2, top3) ==
    IF strategy # "WIDE"
    THEN [kind |-> "formation", first |-> top1.boat, second |-> <<top2.boat, top3.boat>>]
    ELSE [kind |-> "box", first |-> 0, second |-> <<>>]

PredictReturn(res, status, built, called) ==
    [res |-> res, status |-> status, built |-> built, called |-> called,
     raised |-> FALSE]

\* The body of predict_single from the feature builder on, for a record.
\* Every Exception is caught by "except Exception" and gives status -2.
PredictFromRecord(data, features, modelOut) ==
    IF ~FeaturesProducible(features)
    THEN PredictReturn(None, -2, TRUE, FALSE)
    ELSE IF modelOut.raises
    THEN PredictReturn(None, -2, TRUE, TRUE)
    ELSE IF Len(modelOut.probs) < 4
    THEN PredictReturn(None, -2, TRUE, TRUE)
    ELSE LET probs == modelOut.probs
             inJump == 100 - probs[1]
             ranking == Ranking(probs)
             top1 == ranking[1]
             top2 == ranking[2]
             top3 == ranking[3]
             strategy == Strategy(inJump, top1.p)
         IN  IF strategy = ""
             THEN PredictReturn(None, 0, TRUE, TRUE)
             ELSE PredictReturn(
                      [deadline |-> data.deadline, inJump |-> inJump,
                       strategy |-> strategy, top1 |-> top1, top2 |-> top2,
                       top3 |-> top3,
                       grounds |-> <<data.rank[1], ExRank(data.ex_time, 1)>>,
                       bet |-> BetOf(strategy, top1, top2, top3)],
                      1, TRUE, TRUE)

\* Without the "if not data" test: data[c] on None raises TypeError, which the
\* handler turns into status -2.
PredictSingleUnchecked(data, features, modelOut) ==
    IF data = None
    THEN PredictReturn(None, -2, FALSE, FALSE)
    ELSE PredictFromRecord(data, features, modelOut)

\* Without the try/except: the failure of fetch_race_data is raised.
PredictSingleRaising(data, features, modelOut) ==
    IF data = None
    THEN [res |-> None, status |-> -1, built |-> FALSE, called |-> FALSE,
          raised |-> TRUE]
    ELSE PredictFromRecord(data, features, modelOut)

\* data: what scraper.fetch_race_data returned; features: config["features"];
\* modelOut: what model.predict does, [raises, probs].  built and called tell
\* whether input_dict was built and model.predict called; raised whether an
\* exception leaves predict_single.
PredictSingle(data, features, modelOut) ==
    IF data = None
    THEN PredictReturn(None, -1, FALSE, FALSE)
    ELSE PredictFromRecord(data, features, modelOut)

ProbValues == {10, 25, 34, 35}
LeadValues == {40, 45, 46, 50}

\* probs[0..5] in percent, boat 1 first; with the two vectors of the
\* specification's examples.
ProbVectors ==
    { <<a>> \o t : a \in LeadValues, t \in [1..5 -> ProbValues] }
    \cup { <<40, 10, 40, 5, 3, 2>>, <<50, 15, 15, 10, 5, 5>>, <<30, 14, 14, 14, 14, 14>> }

ModelOuts ==
    { [raises |-> FALSE, probs |-> v] : v \in ProbVectors }
    \cup { [raises |-> TRUE, probs |-> <<>>], [raises |-> FALSE, probs |-> <<50, 50>>] }

FeatureLists ==
    { <<<<"wind_speed", 0>>, <<"ex_rank", 1>>, <<"is_debuff", 1>>, <<"st", 6>>>>,
      <<<<"wind_speed", 0>>, <<"motor_rate", 1>>>> }

\* The records a scraper can hand to predict_single.
Records == { MakeRecord(p) : p \in { q \in Pages : PageComplete(q)
                                       /\ \A i \in Boats : ~ExTimeRaises(q.ex[i])
                                       /\ q.nCols = 10 /\ q.weather.present } }

PredictCalls ==
    { [fn |-> "predict_single", data |-> d, features |-> f, modelOut |-> m] :
        d \in {None} \cup Records, f \in FeatureLists, m \in ModelOuts }

InitPredict ==
    /\ call \in PredictCalls
    /\ ret = NoRet
    /\ InitPatrolIdle

CallPredictSingle ==
    /\ call.fn = "predict_single"
    /\ ret = NoRet
    /\ ret' = [fn |-> "predict_single"]
              @@ PredictSingle(call.data, call.features, call.modelOut)
    /\ UNCHANGED <<call, patrolVars>>

SpecPredict == InitPredict /\ [][CallPredictSingle]_vars

\* The largest of probs[1..5]
BestProb(probs) ==
    CHOOSE x \in { probs[k] : k \in 2..6 } : \A k \in 2..6 : probs[k] <= x

\* C1: for a probability vector obtained for an available record, with
\* lead_upset = 1 - probs[0] and best.prob the largest of probs[1..5], the
\* decision is NONE with status 0 if lead_upset < 0.55, otherwise FOCUS if
\* best.prob >= 0.35, else STANDARD if best.prob >= 0.25, else WIDE; the best
\* boat is one that has the largest probability.
C1_DecisionRule ==
    (/\ call.fn = "predict_single" /\ ret # NoRet
     /\ call.data # None
     /\ \A k \in 1..Len(call.features) : call.features[k] \in ComputedFields
     /\ ~call.modelOut.raises /\ Len(call.modelOut.probs) = 6) =>
        LET probs == call.modelOut.probs
            lead == 100 - probs[1]
            best == BestProb(probs)
        IN  IF lead < 55
            THEN ret.status = 0 /\ ret.res = None
            ELSE /\ ret.status = 1
                 /\ ret.res.strategy = (IF best >= 35 THEN "FOCUS"
                                        ELSE IF best >= 25 THEN "STANDARD"
                                        ELSE "WIDE")
                 /\ ret.res.top1.p = best
                 /\ ret.res.top1.boat \in 2..6
                 /\ probs[ret.res.top1.boat] = best

\* The specification's first example: FOCUS with best boat 3.
C1_Witness ==
    /\ call.fn = "predict_single" /\ ret # NoRet
    /\ call.data # None
    /\ call.modelOut.probs = <<40, 10, 40, 5, 3, 2>>
    /\ ret.status = 1
    /\ ret.res.strategy = "FOCUS"
    /\ ret.res.top1.boat = 3

\* C5: whenever fetch_race_data returns None, predict_single returns no
\* decision with status -1, without building features or calling the model,
\* whatever the model would return; and a race that was evaluated with
\* lead_upset < 0.55 gets status 0, a different code.
C5_ExtractionFailureDominates ==
    (call.fn = "predict_single" /\ ret # NoRet) =>
        /\ call.data = None =>
              (ret.status = -1 /\ ret.res = None /\ ~ret.built /\ ~ret.called)
        /\ ret.status = -1 => call.data = None
        /\ ret.status = 0 => (call.data # None /\ ret.called)

\* No record, a feature list that cannot be built and the first example's
\* probabilities: status -1 all the same.
C5_Witness ==
    /\ call.fn = "predict_single" /\ ret # NoRet
    /\ call.data = None
    /\ call.modelOut.probs = <<40, 10, 40, 5, 3, 2>>
    /\ ret.status = -1

(***************************************************************************)
(* 5. The duplicate-suppression log and the patrol loop: run_live_patrol   *)
(***************************************************************************)
DefaultRetries == 3     \* def _get_soup(self, url, referer=None, retries=3)

\* Venues are numbered in the order sorted() gives their names.
Venues == 1..NumVenues

\* race_id = f"{date_str}_{course}_{rno}"
RaceId(d, course, rno) == <<d, course, rno>>

IsAlreadyNotifiedNever(race_id, lg) == FALSE

\* race_id in f.read().splitlines(); False when the file does not exist
IsAlreadyNotified(race_id, lg) == \E k \in 1..Len(lg) : lg[k] = race_id

\* f.write(race_id + "\n") on the file opened with "a"
SaveNotifiedRace(race_id, lg) == Append(lg, race_id)

IsHitAlways(status) == TRUE

\* if status == 1
IsHit(status) == status = 1

\* sorted(list(set(active_courses))): the venues of `links` in ascending order
RECURSIVE SortedCourses(_)
SortedCourses(S) ==
    IF S = {} THEN <<>>
    ELSE LET v == CHOOSE x \in S : \A y \in S : x <= y
         IN  <<v>> \o SortedCourses(S \ {v})

\* The venue codes of the index page's links; 99 is a code COURSE_MAP lacks.
\* fetch_active_courses returns [] when the index page is not retrieved.
FetchActiveCourses(soupOk, links) ==
    IF ~soupOk THEN <<>> ELSE SortedCourses(links \cap Venues)

\* What the three attempts of one _get_soup call meet during a patrol: the
\* page comes at the second attempt, or at none.
PatrolOuts ==
    { <<"timeout", "ok", "ok">>, <<"status", "transport", "timeout">> }

\* Race-list pages met during a patrol (read at 12:00:00): no deadline, one
\* outside the window, race 1 inside, race 2 inside, races 1 and 2 inside.
PatrolListPages ==
    { PageOf(725, 15, 0, 0), PageOf(710, 0, 1, 0), PageOf(725, 15, 1, 0),
      PageOf(710, 15, 2, 0), PageOf(725, 15, 2, 0) }

\* A race whose two pages are retrieved and complete, every cell well-formed.
CompletePage ==
    [listOk |-> TRUE, infoOk |-> TRUE, marker |-> FALSE, info2Ok |-> TRUE,
     table |-> TRUE, nRows |-> 6, nCols |-> 10,
     weather |-> [present |-> TRUE, wind |-> 3, wave |-> 2],
     ex |-> [i \in Boats |-> Num(670 + i)], st |-> [i \in Boats |-> Num(10 + i)],
     rank |-> [i \in Boats |-> IF i = 1 THEN "A1" ELSE "B1"],
     rate |-> [i \in Boats |-> IF i = 6 THEN Txt("absent") ELSE Num(500 + 10 * i)],
     deadline |-> "12:30"]

\* Race pages met during a patrol: complete; the listing page not retrieved;
\* the pre-race page not retrieved; "no data" on it; no results table.
PatrolRacePages ==
    { CompletePage, [CompletePage EXCEPT !.listOk = FALSE],
      [CompletePage EXCEPT !.infoOk = FALSE], [CompletePage EXCEPT !.marker = TRUE],
      [CompletePage EXCEPT !.table = FALSE] }

PatrolModelOuts ==
    { [raises |-> TRUE, probs |-> <<>>],
      [raises |-> FALSE, probs |-> <<40, 10, 40, 5, 3, 2>>],
      [raises |-> FALSE, probs |-> <<50, 15, 15, 10, 5, 5>>] }

\* Keys the log file may hold when the first run starts: of today (date 1),
\* or one of another day (date 2).
LogKeys == ({1} \X Venues \X (1..2)) \cup {<<2, 1, 1>>}

InitLogs == {<<>>} \cup { <<k>> : k \in LogKeys }

Init ==
    /\ call = NoCall
    /\ ret = NoRet
    /\ pc = "idle"
    /\ run = 0
    /\ date = 1
    /\ courses = <<>>
    /\ ci = 0
    /\ targets = <<>>
    /\ ti = 0
    /\ log \in InitLogs
    /\ webhook \in BOOLEAN
    /\ config \in FeatureLists
    /\ todo = {}
    /\ posts = <<>>
    /\ lastStep = NoStep
    /\ lastReq = NoUnit
    /\ paused = FALSE
    /\ gap = NoGap

\* A request of `unit` is issued: the first time two units' requests follow
\* each other with no sleep between them is kept in gap.
GapAfterRequest(unit) ==
    IF gap = NoGap /\ lastReq.kind \in {"venue", "race"} /\ lastReq # unit
       /\ ~paused
    THEN [from |-> lastReq.kind, to |-> unit.kind]
    ELSE gap

\* The loop "for course in courses" moves to the next venue, or the function
\* prints "Patrol Finished" and returns.
NextVenue ==
    IF ci < Len(courses)
    THEN pc' = "venue" /\ ci' = ci + 1 /\ targets' = <<>> /\ ti' = 0
    ELSE pc' = "idle" /\ ci' = 0 /\ targets' = <<>> /\ ti' = 0

\* The loop "for rno in targets" moves to the next race, or ends.
NextRace ==
    IF ti < Len(targets)
    THEN pc' = "race" /\ ti' = ti + 1 /\ UNCHANGED <<ci, targets>>
    ELSE NextVenue

\* run_live_patrol up to the venue loop: the model file is looked for, model
\* and config are loaded, the index page is fetched.  A run starts when no run
\* is in progress (the process is started anew each time).
StartRun ==
    /\ pc \in {"idle", "crashed"}
    /\ run < MaxRuns
    /\ run' = run + 1
    /\ \E modelFile \in BOOLEAN, outs \in PatrolOuts,
          links \in (SUBSET Venues) \cup {Venues \cup {99}} :
          LET soup == GetSoup(outs, DefaultRetries)
              found == IF modelFile THEN FetchActiveCourses(soup.doc, links) ELSE <<>>
          IN  /\ courses' = found
              /\ todo' = todo \cup { <<run + 1, found[k], 0>> : k \in 1..Len(found) }
              /\ IF found = <<>>
                 THEN pc' = "idle" /\ ci' = 0
                 ELSE pc' = "venue" /\ ci' = 1
              /\ lastReq' = IF modelFile THEN [kind |-> "index", venue |-> 0, rno |-> 0]
                            ELSE NoUnit
              /\ paused' = (modelFile /\ ~soup.doc)
    /\ targets' = <<>>
    /\ ti' = 0
    /\ gap' = NoGap
    /\ UNCHANGED <<call, ret, date, log, webhook, config, posts, lastStep>>

\* One pass of "for course in courses" up to the race loop:
\* get_target_races_for_course for the venue courses[ci].
ScanVenue ==
    /\ pc = "venue"
    /\ \E outs \in PatrolOuts, page \in PatrolListPages :
          LET soup == GetSoup(outs, DefaultRetries)
              unit == [kind |-> "venue", venue |-> courses[ci], rno |-> 0]
              found == GetTargetRacesForCourse(soup.doc, page, 43200)
          IN  /\ gap' = GapAfterRequest(unit)
              /\ lastReq' = unit
              /\ paused' = ~soup.doc
              /\ todo' = (todo \ {<<run, courses[ci], 0>>})
                          \cup { <<run, courses[ci], found[k]>> : k \in 1..Len(found) }
              /\ IF found = <<>>
                 THEN NextVenue
                 ELSE pc' = "race" /\ targets' = found /\ ti' = 1 /\ ci' = ci
    /\ UNCHANGED <<call, ret, run, date, courses, log, webhook, config, posts,
                   lastStep>>

\* One pass of "for rno in targets": the race targets[ti] of venue courses[ci].
RaceStep ==
    /\ pc = "race"
    /\ LET course == courses[ci]
           rno == targets[ti]
           race_id == RaceId(date, course, rno)
           unit == [kind |-> "race", venue |-> course, rno |-> rno]
       IN  IF IsAlreadyNotified(race_id, log)
           THEN \* continue: nothing is fetched, and time.sleep(1) is not reached
                /\ lastStep' = [kind |-> "skip", run |-> run, id |-> race_id,
                                status |-> 0, worthy |-> FALSE, again |-> FALSE,
                                posts |-> 0]
                /\ todo' = todo \ {<<run, course, rno>>}
                /\ NextRace
                /\ UNCHANGED <<log, posts, lastReq, paused, gap>>
           ELSE \E page \in PatrolRacePages, modelOut \in PatrolModelOuts :
                  LET r == PredictSingle(FetchRaceData(page), config, modelOut)
                      \* requests.post is called once; what it does (returns,
                      \* or raises and is caught) changes nothing
                      post == IsHit(r.status) /\ webhook
                  IN  /\ gap' = GapAfterRequest(unit)
                      /\ lastReq' = unit
                      /\ IF r.raised
                         THEN \* the exception leaves run_live_patrol
                              /\ pc' = "crashed"
                              /\ paused' = FALSE
                              /\ UNCHANGED <<ci, targets, ti, log, posts, todo>>
                              /\ lastStep' = [kind |-> "raise", run |-> run,
                                              id |-> race_id, status |-> r.status,
                                              worthy |-> FALSE, again |-> FALSE,
                                              posts |-> 0]
                         ELSE /\ todo' = todo \ {<<run, course, rno>>}
                              /\ posts' = IF post THEN Append(posts, race_id) ELSE posts
                              /\ log' = IF IsHit(r.status)
                                        THEN SaveNotifiedRace(race_id, log)
                                        ELSE log
                              /\ paused' = TRUE
                              /\ lastStep' =
                                   [kind |-> "eval", run |-> run, id |-> race_id,
                                    status |-> r.status,
                                    worthy |-> /\ PageComplete(page)
                                               /\ FeaturesProducible(config)
                                               /\ ~modelOut.raises
                                               /\ 100 - modelOut.probs[1] >= TauUpset,
                                    again |-> /\ lastStep.kind = "eval"
                                              /\ lastStep.run < run
                                              /\ lastStep.id = race_id
                                              /\ lastStep.status # 1,
                                    posts |-> IF post THEN 1 ELSE 0]
                              /\ NextRace
    /\ UNCHANGED <<call, ret, run, date, courses, webhook, config>>

Next == StartRun \/ ScanVenue \/ RaceStep

Spec == Init /\ [][Next]_vars

\* The patrol together with predict_single called on its own.  A run that
\* has started goes on: the process is not stopped, every request has a
\* timeout and every sleep ends.  Nothing makes a new run start.
FairSpec ==
    /\ Init \/ (InitPredict /\ call.modelOut \in PatrolModelOuts)
    /\ [][Next \/ CallPredictSingle]_vars
    /\ WF_vars(ScanVenue) /\ WF_vars(RaceStep) /\ WF_vars(CallPredictSingle)

\* The id of the race the loop is about to process, and whether the log
\* holds it as one of its lines.
CurrentId == <<date, courses[ci], targets[ti]>>
InLog(id) == \E k \in DOMAIN log : log[k] = id

\* C3: a target race whose key is in the suppression log when the loop reaches
\* it is skipped: predict_single is not called for it, nothing is requested or
\* posted, and the log is left as it is; in every patrol run.
C3_NotifiedRaceIsSkipped ==
    [][(pc = "race" /\ InLog(CurrentId)) =>
          /\ lastStep'.kind = "skip"
          /\ lastStep'.id = CurrentId
          /\ lastReq' = lastReq
          /\ posts' = posts
          /\ log' = log]_vars

\* A race is skipped in the second run.
C3_Witness ==
    /\ run = 2
    /\ lastStep.kind = "skip"
    /\ lastStep.run = 2
    /\ InLog(lastStep.id)

\* C6: in every patrol run every active venue is scanned and every target
\* race of it is reached (skipped or evaluated), whatever the races before it
\* did; predict_single never raises: a feature list that cannot be built and
\* an exception of the model give an error status, as an extraction failure
\* does, and the loop goes on.
C6_EveryTargetReached ==
    /\ (todo # {}) ~> (todo = {})
    /\ [](pc # "crashed")
    /\ []((call.fn = "predict_single" /\ ret # NoRet) =>
            /\ ~ret.raised
            /\ ret.status \in {1, 0, -1, -2}
            /\ (\E k \in 1..Len(call.features) : call.features[k] \notin ComputedFields)
                  => ret.status \in {-1, -2}
            /\ call.modelOut.raises => ret.status \in {-1, -2})

\* The second of two target races of the second venue is evaluated after the
\* first one failed with "data unavailable".
C6_Witness ==
    /\ Len(courses) = 2
    /\ lastStep.kind = "eval"
    /\ lastStep.status = -1
    /\ lastStep.id = <<date, courses[2], 2>>
    /\ lastReq.kind = "race"
    /\ pc = "idle"

C9_PauseBetweenUnits == gap = NoGap

\* C10: the log is only appended to; a key is appended only by a pass whose
\* evaluation returned a hit; a pass whose evaluation returned 0, -1 or -2
\* leaves the log as it is, without the race's key.
C10_LogHoldsOnlyHits ==
    [][/\ Len(log') >= Len(log)
       /\ SubSeq(log', 1, Len(log)) = log
       /\ Len(log') <= Len(log) + 1
       /\ log' # log =>
             /\ pc = "race"
             /\ lastStep'.kind = "eval"
             /\ lastStep'.status = 1
             /\ log'[Len(log')] = CurrentId
       /\ (pc = "race" /\ lastStep'.kind = "eval" /\ lastStep'.status \in {0, -1, -2}) =>
             /\ log' = log
             /\ \A k \in DOMAIN log' : log'[k] # CurrentId]_vars

\* A race that a run evaluated without a hit is evaluated again by a later run.
C10_Witness ==
    /\ lastStep.kind = "eval"
    /\ lastStep.again
    /\ lastStep.status = -1
    /\ ~InLog(lastStep.id)

=============================================================================
